---------------------------- MODULE Spec2Model ----------------------------
(***************************************************************************)
(* A model of vtparse (src/vtparse.c): the table-driven DEC/Williams       *)
(* escape-sequence parser with its UTF-8 byte front-end and its print      *)
(* coalescing buffer.                                                      *)
(*                                                                         *)
(* The parser structure is a record; every C function is an operator from  *)
(* a parser record to a parser record, translated statement by statement.  *)
(* vtparse.h and the generated tables (vtparse_table.h/.c) are not among   *)
(* the sources at hand: the enumerations, the capacities and the three     *)
(* tables are written from the design document (Williams' diagram).        *)
(*                                                                         *)
(* Ghost fields of the record (not fields of the C structure):             *)
(*   cbs   the callbacks issued in the latest step (one loop iteration, or  *)
(*         the statements after the loop), each with the parser fields the *)
(*         callback can read                                               *)
(*   acts  the do_action invocations made in the latest step               *)
(*   fed_ch  the code point the latest step gave to parse_ch, if any       *)
(*   col   the code points given to COLLECT since the last CLEAR action    *)
(*   par   the code points given to PARAM since the last CLEAR action      *)
(*   ncol  how many COLLECT actions have run since ignore_flagged was last  *)
(*         reset (by the CLEAR action or by do_print)                      *)
(*   oob   the undefined operations performed so far: "params" and         *)
(*         "print_buf" for a store outside that array, "int" for an        *)
(*         overflow of the int arithmetic on a parameter                   *)
(*   kind  what the latest step of vtparse did with its byte: "single" (a  *)
(*         byte below 0x80 given to parse_ch), "lead" (a lead byte kept),  *)
(*         "cont" (a continuation byte kept), "last" (the continuation     *)
(*         byte that completed a sequence); "none" otherwise               *)
(*   from  the state the parser was in when the latest step began          *)
(*   idx   the STATE_TABLE subscripts used in the latest step              *)
(***************************************************************************)
EXTENDS Integers, Sequences, FiniteSets, TLC

\* ------------------------------------------------------------------------
\* vtparse.h / vtparse_table.h: capacities and enumerations
\* ------------------------------------------------------------------------

MAX_INTERMEDIATE_CHARS == 2
MAX_PARAMS == 16
PRINT_BUFFER_SIZE == 64

VTPARSE_STATE_CSI_ENTRY == 1
VTPARSE_STATE_CSI_IGNORE == 2
VTPARSE_STATE_CSI_INTERMEDIATE == 3
VTPARSE_STATE_CSI_PARAM == 4
VTPARSE_STATE_DCS_ENTRY == 5
VTPARSE_STATE_DCS_IGNORE == 6
VTPARSE_STATE_DCS_INTERMEDIATE == 7
VTPARSE_STATE_DCS_PARAM == 8
VTPARSE_STATE_DCS_PASSTHROUGH == 9
VTPARSE_STATE_ESCAPE == 10
VTPARSE_STATE_ESCAPE_INTERMEDIATE == 11
VTPARSE_STATE_GROUND == 12
VTPARSE_STATE_OSC_STRING == 13
VTPARSE_STATE_SOS_PM_APC_STRING == 14

VTPARSE_ACTION_CLEAR == 1
VTPARSE_ACTION_COLLECT == 2
VTPARSE_ACTION_CSI_DISPATCH == 3
VTPARSE_ACTION_ESC_DISPATCH == 4
VTPARSE_ACTION_EXECUTE == 5
VTPARSE_ACTION_HOOK == 6
VTPARSE_ACTION_IGNORE == 7
VTPARSE_ACTION_OSC_END == 8
VTPARSE_ACTION_OSC_PUT == 9
VTPARSE_ACTION_OSC_START == 10
VTPARSE_ACTION_PARAM == 11
VTPARSE_ACTION_PRINT == 12
VTPARSE_ACTION_PUT == 13
VTPARSE_ACTION_UNHOOK == 14
VTPARSE_ACTION_ERROR == 15

\* state_change_t packs the action in the low four bits and the target
\* state in the high four bits.
\* The macro ACTION (a reserved word here).
ACTION_OF(change) == change % 16

\* The macro STATE (a reserved word here).
STATE_OF(change) == change \div 16

Change(action, state) == action + 16 * state

InRange(ch, lo, hi) == lo <= ch /\ ch <= hi

\* The C0 controls every state handles itself: 00-17, 19, 1C-1F.
IsC0(ch) == InRange(ch, 0, 23) \/ ch = 25 \/ InRange(ch, 28, 31)

\* ------------------------------------------------------------------------
\* vtparse_table.c: the three tables
\* ------------------------------------------------------------------------

\* Transitions that apply in every state ("anywhere" in Williams' diagram);
\* 0 where the diagram has none.
AnywhereTransition(ch) ==
    CASE ch = 24 \/ ch = 26 -> Change(VTPARSE_ACTION_EXECUTE, VTPARSE_STATE_GROUND)
      [] InRange(ch, 128, 143) -> Change(VTPARSE_ACTION_EXECUTE, VTPARSE_STATE_GROUND)
      [] InRange(ch, 145, 151) -> Change(VTPARSE_ACTION_EXECUTE, VTPARSE_STATE_GROUND)
      [] ch = 153 \/ ch = 154 -> Change(VTPARSE_ACTION_EXECUTE, VTPARSE_STATE_GROUND)
      [] ch = 156 -> Change(0, VTPARSE_STATE_GROUND)
      [] ch = 27 -> Change(0, VTPARSE_STATE_ESCAPE)
      [] ch = 152 \/ ch = 158 \/ ch = 159 -> Change(0, VTPARSE_STATE_SOS_PM_APC_STRING)
      [] ch = 144 -> Change(0, VTPARSE_STATE_DCS_ENTRY)
      [] ch = 157 -> Change(0, VTPARSE_STATE_OSC_STRING)
      [] ch = 155 -> Change(0, VTPARSE_STATE_CSI_ENTRY)
      [] OTHER -> 0

\* The transitions each state defines for itself; 0 where it defines none.
StateTransition(state, ch) ==
    CASE state = VTPARSE_STATE_GROUND ->
           IF IsC0(ch) THEN Change(VTPARSE_ACTION_EXECUTE, 0)
           ELSE IF InRange(ch, 32, 127) THEN Change(VTPARSE_ACTION_PRINT, 0)
           ELSE 0
      [] state = VTPARSE_STATE_ESCAPE ->
           IF IsC0(ch) THEN Change(VTPARSE_ACTION_EXECUTE, 0)
           ELSE IF ch = 127 THEN Change(VTPARSE_ACTION_IGNORE, 0)
           ELSE IF InRange(ch, 32, 47)
                THEN Change(VTPARSE_ACTION_COLLECT, VTPARSE_STATE_ESCAPE_INTERMEDIATE)
           ELSE IF ch = 91 THEN Change(0, VTPARSE_STATE_CSI_ENTRY)
           ELSE IF ch = 93 THEN Change(0, VTPARSE_STATE_OSC_STRING)
           ELSE IF ch = 80 THEN Change(0, VTPARSE_STATE_DCS_ENTRY)
           ELSE IF ch = 88 \/ ch = 94 \/ ch = 95
                THEN Change(0, VTPARSE_STATE_SOS_PM_APC_STRING)
           ELSE IF InRange(ch, 48, 126)
                THEN Change(VTPARSE_ACTION_ESC_DISPATCH, VTPARSE_STATE_GROUND)
           ELSE 0
      [] state = VTPARSE_STATE_ESCAPE_INTERMEDIATE ->
           IF IsC0(ch) THEN Change(VTPARSE_ACTION_EXECUTE, 0)
           ELSE IF InRange(ch, 32, 47) THEN Change(VTPARSE_ACTION_COLLECT, 0)
           ELSE IF ch = 127 THEN Change(VTPARSE_ACTION_IGNORE, 0)
           ELSE IF InRange(ch, 48, 126)
                THEN Change(VTPARSE_ACTION_ESC_DISPATCH, VTPARSE_STATE_GROUND)
           ELSE 0
      [] state = VTPARSE_STATE_CSI_ENTRY ->
           IF IsC0(ch) THEN Change(VTPARSE_ACTION_EXECUTE, 0)
           ELSE IF ch = 127 THEN Change(VTPARSE_ACTION_IGNORE, 0)
           ELSE IF InRange(ch, 32, 47)
                THEN Change(VTPARSE_ACTION_COLLECT, VTPARSE_STATE_CSI_INTERMEDIATE)
           ELSE IF ch = 58 THEN Change(0, VTPARSE_STATE_CSI_IGNORE)
           ELSE IF InRange(ch, 48, 57) \/ ch = 59
                THEN Change(VTPARSE_ACTION_PARAM, VTPARSE_STATE_CSI_PARAM)
           ELSE IF InRange(ch, 60, 63)
                THEN Change(VTPARSE_ACTION_COLLECT, VTPARSE_STATE_CSI_PARAM)
           ELSE IF InRange(ch, 64, 126)
                THEN Change(VTPARSE_ACTION_CSI_DISPATCH, VTPARSE_STATE_GROUND)
           ELSE 0
      [] state = VTPARSE_STATE_CSI_IGNORE ->
           IF IsC0(ch) THEN Change(VTPARSE_ACTION_EXECUTE, 0)
           ELSE IF InRange(ch, 32, 63) \/ ch = 127 THEN Change(VTPARSE_ACTION_IGNORE, 0)
           ELSE IF InRange(ch, 64, 126) THEN Change(0, VTPARSE_STATE_GROUND)
           ELSE 0
      [] state = VTPARSE_STATE_CSI_PARAM ->
           IF IsC0(ch) THEN Change(VTPARSE_ACTION_EXECUTE, 0)
           ELSE IF InRange(ch, 48, 57) \/ ch = 59 THEN Change(VTPARSE_ACTION_PARAM, 0)
           ELSE IF ch = 127 THEN Change(VTPARSE_ACTION_IGNORE, 0)
           ELSE IF ch = 58 \/ InRange(ch, 60, 63) THEN Change(0, VTPARSE_STATE_CSI_IGNORE)
           ELSE IF InRange(ch, 32, 47)
                THEN Change(VTPARSE_ACTION_COLLECT, VTPARSE_STATE_CSI_INTERMEDIATE)
           ELSE IF InRange(ch, 64, 126)
                THEN Change(VTPARSE_ACTION_CSI_DISPATCH, VTPARSE_STATE_GROUND)
           ELSE 0
      [] state = VTPARSE_STATE_CSI_INTERMEDIATE ->
           IF IsC0(ch) THEN Change(VTPARSE_ACTION_EXECUTE, 0)
           ELSE IF InRange(ch, 32, 47) THEN Change(VTPARSE_ACTION_COLLECT, 0)
           ELSE IF ch = 127 THEN Change(VTPARSE_ACTION_IGNORE, 0)
           ELSE IF InRange(ch, 48, 63) THEN Change(0, VTPARSE_STATE_CSI_IGNORE)
           ELSE IF InRange(ch, 64, 126)
                THEN Change(VTPARSE_ACTION_CSI_DISPATCH, VTPARSE_STATE_GROUND)
           ELSE 0
      [] state = VTPARSE_STATE_DCS_ENTRY ->
           IF IsC0(ch) \/ ch = 127 THEN Change(VTPARSE_ACTION_IGNORE, 0)
           ELSE IF ch = 58 THEN Change(0, VTPARSE_STATE_DCS_IGNORE)
           ELSE IF InRange(ch, 32, 47)
                THEN Change(VTPARSE_ACTION_COLLECT, VTPARSE_STATE_DCS_INTERMEDIATE)
           ELSE IF InRange(ch, 48, 57) \/ ch = 59
                THEN Change(VTPARSE_ACTION_PARAM, VTPARSE_STATE_DCS_PARAM)
           ELSE IF InRange(ch, 60, 63)
                THEN Change(VTPARSE_ACTION_COLLECT, VTPARSE_STATE_DCS_PARAM)
           ELSE IF InRange(ch, 64, 126) THEN Change(0, VTPARSE_STATE_DCS_PASSTHROUGH)
           ELSE 0
      [] state = VTPARSE_STATE_DCS_INTERMEDIATE ->
           IF IsC0(ch) \/ ch = 127 THEN Change(VTPARSE_ACTION_IGNORE, 0)
           ELSE IF InRange(ch, 32, 47) THEN Change(VTPARSE_ACTION_COLLECT, 0)
           ELSE IF InRange(ch, 48, 63) THEN Change(0, VTPARSE_STATE_DCS_IGNORE)
           ELSE IF InRange(ch, 64, 126) THEN Change(0, VTPARSE_STATE_DCS_PASSTHROUGH)
           ELSE 0
      [] state = VTPARSE_STATE_DCS_IGNORE ->
           IF IsC0(ch) \/ InRange(ch, 32, 127) THEN Change(VTPARSE_ACTION_IGNORE, 0)
           ELSE 0
      [] state = VTPARSE_STATE_DCS_PARAM ->
           IF IsC0(ch) \/ ch = 127 THEN Change(VTPARSE_ACTION_IGNORE, 0)
           ELSE IF InRange(ch, 48, 57) \/ ch = 59 THEN Change(VTPARSE_ACTION_PARAM, 0)
           ELSE IF ch = 58 \/ InRange(ch, 60, 63) THEN Change(0, VTPARSE_STATE_DCS_IGNORE)
           ELSE IF InRange(ch, 32, 47)
                THEN Change(VTPARSE_ACTION_COLLECT, VTPARSE_STATE_DCS_INTERMEDIATE)
           ELSE IF InRange(ch, 64, 126) THEN Change(0, VTPARSE_STATE_DCS_PASSTHROUGH)
           ELSE 0
      [] state = VTPARSE_STATE_DCS_PASSTHROUGH ->
           IF IsC0(ch) \/ InRange(ch, 32, 126) THEN Change(VTPARSE_ACTION_PUT, 0)
           ELSE IF ch = 127 THEN Change(VTPARSE_ACTION_IGNORE, 0)
           ELSE 0
      [] state = VTPARSE_STATE_SOS_PM_APC_STRING ->
           IF IsC0(ch) \/ InRange(ch, 32, 127) THEN Change(VTPARSE_ACTION_IGNORE, 0)
           ELSE 0
      [] state = VTPARSE_STATE_OSC_STRING ->
           IF IsC0(ch) THEN Change(VTPARSE_ACTION_IGNORE, 0)
           ELSE IF InRange(ch, 32, 127) THEN Change(VTPARSE_ACTION_OSC_PUT, 0)
           ELSE 0
      [] OTHER -> 0

\* STATE_TABLE[row][ch] for row in 0..13 (row = state-1) and ch in 0..255.
STATE_TABLE(row, ch) ==
    IF AnywhereTransition(ch) # 0 THEN AnywhereTransition(ch)
    ELSE StateTransition(row + 1, ch)

\* ENTRY_ACTIONS[row], row = state-1.
ENTRY_ACTIONS(row) ==
    CASE row + 1 = VTPARSE_STATE_ESCAPE -> VTPARSE_ACTION_CLEAR
      [] row + 1 = VTPARSE_STATE_CSI_ENTRY -> VTPARSE_ACTION_CLEAR
      [] row + 1 = VTPARSE_STATE_DCS_ENTRY -> VTPARSE_ACTION_CLEAR
      [] row + 1 = VTPARSE_STATE_DCS_PASSTHROUGH -> VTPARSE_ACTION_HOOK
      [] row + 1 = VTPARSE_STATE_OSC_STRING -> VTPARSE_ACTION_OSC_START
      [] OTHER -> 0

\* EXIT_ACTIONS[row], row = state-1.
EXIT_ACTIONS(row) ==
    CASE row + 1 = VTPARSE_STATE_DCS_PASSTHROUGH -> VTPARSE_ACTION_UNHOOK
      [] row + 1 = VTPARSE_STATE_OSC_STRING -> VTPARSE_ACTION_OSC_END
      [] OTHER -> 0


\* ------------------------------------------------------------------------
\* vtparse.c
\* ------------------------------------------------------------------------

\* How the build lays out the word that follows params[MAX_PARAMS]: a store
\* to params[MAX_PARAMS] either lands on num_params (the field declared
\* right after the array) or on storage no modelled field occupies.
Layouts == {"num_params", "elsewhere"}

\* v * m + d in int arithmetic as the two's complement builds compute it
\* (the result wraps modulo 2^32 into -2^31 .. 2^31-1), computed on 16-bit
\* halves.
WrapMulAdd(v, m, d) ==
    LET hi == v \div 65536
        lo == v % 65536
        lo2 == lo * m + d
        hi2 == hi * m + (lo2 \div 65536)
        hi16 == ((hi2 + 32768) % 65536) - 32768
    IN  hi16 * 65536 + (lo2 % 65536)

\* vtparse_init (the ghost fields start empty).
vtparse_init(layout) ==
    [ state |-> VTPARSE_STATE_GROUND,
      num_intermediate_chars |-> 0,
      intermediate_chars |-> << >>,
      num_params |-> 0,
      params |-> << >>,
      ignore_flagged |-> 0,
      ch_bytes |-> 1,
      utf8_ch |-> 0,
      print_buf_len |-> 0,
      print_buf |-> << >>,
      layout |-> layout,
      cbs |-> << >>,
      acts |-> << >>,
      col |-> << >>,
      par |-> << >>,
      ncol |-> 0,
      oob |-> {},
      idx |-> << >>,
      fed_ch |-> << >>,
      kind |-> "none",
      from |-> VTPARSE_STATE_GROUND ]

\* params[0 .. num_params) as far as it lies inside the array.
VisibleParams(p) ==
    SubSeq(p.params, 1,
           IF p.num_params < Len(p.params) THEN p.num_params ELSE Len(p.params))

\* parser->cb(parser, action, ch): the callback is recorded with everything
\* it may read from the parser (and with the ghost fields col and par as
\* they are at that moment).
Callback(p, action, ch) ==
    [p EXCEPT !.cbs = Append(@,
        [ action |-> action,
          ch |-> ch,
          state |-> p.state,
          num_intermediate_chars |-> p.num_intermediate_chars,
          intermediate_chars |-> p.intermediate_chars,
          num_params |-> p.num_params,
          params |-> VisibleParams(p),
          ignore_flagged |-> p.ignore_flagged,
          print_buf_len |-> p.print_buf_len,
          print_buf |-> p.print_buf,
          col |-> p.col,
          par |-> p.par,
          ncol |-> p.ncol ])]

HostActions ==
    { VTPARSE_ACTION_PRINT, VTPARSE_ACTION_EXECUTE, VTPARSE_ACTION_HOOK,
      VTPARSE_ACTION_PUT, VTPARSE_ACTION_OSC_START, VTPARSE_ACTION_OSC_PUT,
      VTPARSE_ACTION_OSC_END, VTPARSE_ACTION_UNHOOK,
      VTPARSE_ACTION_CSI_DISPATCH, VTPARSE_ACTION_ESC_DISPATCH }

\* Mutant of ActionCollect: the capacity test is off by one.
ActionCollect_off_by_one(p, ch) ==
    IF p.num_intermediate_chars > MAX_INTERMEDIATE_CHARS
    THEN [p EXCEPT !.ignore_flagged = 1, !.col = Append(@, ch), !.ncol = @ + 1]
    ELSE [p EXCEPT !.intermediate_chars = Append(@, ch % 256),
                   !.num_intermediate_chars = @ + 1,
                   !.col = Append(@, ch),
                   !.ncol = @ + 1]

\* Mutant of ActionCollect: a rejected code point leaves no trace.
ActionCollect_never_flags(p, ch) ==
    IF p.num_intermediate_chars + 1 > MAX_INTERMEDIATE_CHARS
    THEN [p EXCEPT !.col = Append(@, ch), !.ncol = @ + 1]
    ELSE [p EXCEPT !.intermediate_chars = Append(@, ch % 256),
                   !.num_intermediate_chars = @ + 1,
                   !.col = Append(@, ch),
                   !.ncol = @ + 1]

\* case VTPARSE_ACTION_COLLECT
ActionCollect(p, ch) ==
    IF p.num_intermediate_chars + 1 > MAX_INTERMEDIATE_CHARS
    THEN [p EXCEPT !.ignore_flagged = 1, !.col = Append(@, ch), !.ncol = @ + 1]
    ELSE [p EXCEPT !.intermediate_chars = Append(@, ch % 256),
                   !.num_intermediate_chars = @ + 1,
                   !.col = Append(@, ch),
                   !.ncol = @ + 1]

\* params[i] = v for the slot i the counter names. A slot inside the array
\* is set; a slot past the array is a store outside it, whose effect is the
\* build's (Layouts).
StoreParam(p, i, v) ==
    IF i < MAX_PARAMS
    THEN IF i < Len(p.params)
         THEN [p EXCEPT !.params[i + 1] = v]
         ELSE [p EXCEPT !.params = Append(@, v)]
    ELSE IF p.layout = "num_params" /\ i = MAX_PARAMS
         THEN [p EXCEPT !.num_params = v, !.oob = @ \cup {"params"}]
         ELSE [p EXCEPT !.oob = @ \cup {"params"}]

\* The value read from params[i]: past the array it is the word the build
\* put there (num_params itself, or a word the model does not hold: 0).
LoadParam(p, i) ==
    IF i < Len(p.params) THEN p.params[i + 1]
    ELSE IF p.layout = "num_params" /\ i = MAX_PARAMS THEN p.num_params
    ELSE 0

\* v * 10 or v * 10 + d does not fit an int: the multiplication or the
\* addition of the PARAM action overflows (undefined for a signed int).
IntOverflow(v, d) ==
    \/ v > (2147483647 - d) \div 10
    \/ v < -214748364

\* Mutant of ActionParam: a digit shifts the parameter by 16, not by 10.
ActionParam_hexadecimal(p, ch) ==
    LET q == [p EXCEPT !.par = Append(@, ch)] IN
    IF ch = 59
    THEN LET q1 == [q EXCEPT !.num_params = @ + 1] IN
         StoreParam(q1, q1.num_params - 1, 0)
    ELSE LET q1 == IF q.num_params = 0
                   THEN StoreParam([q EXCEPT !.num_params = 1], 0, 0)
                   ELSE q
             current_param == q1.num_params - 1
         IN  StoreParam(q1, current_param,
                        WrapMulAdd(LoadParam(q1, current_param), 16, ch - 48))

\* case VTPARSE_ACTION_PARAM
ActionParam(p, ch) ==
    LET q == [p EXCEPT !.par = Append(@, ch)] IN
    IF ch = 59
    THEN LET q1 == [q EXCEPT !.num_params = @ + 1] IN
         StoreParam(q1, q1.num_params - 1, 0)
    ELSE LET q1 == IF q.num_params = 0
                   THEN StoreParam([q EXCEPT !.num_params = 1], 0, 0)
                   ELSE q
             current_param == q1.num_params - 1
             q2 == StoreParam(q1, current_param,
                              WrapMulAdd(LoadParam(q1, current_param), 10, 0))
             overflow == IF IntOverflow(LoadParam(q1, current_param), ch - 48)
                         THEN {"int"} ELSE {}
         IN  StoreParam([q2 EXCEPT !.oob = @ \cup overflow], current_param,
                        WrapMulAdd(LoadParam(q2, current_param), 1, ch - 48))

\* Mutant of ActionClear: the parameters are not reset.
ActionClear_keeps_params(p) ==
    [p EXCEPT !.num_intermediate_chars = 0,
              !.intermediate_chars = << >>,
              !.ignore_flagged = 0,
              !.col = << >>,
              !.par = << >>,
              !.ncol = 0]

\* case VTPARSE_ACTION_CLEAR
ActionClear(p) ==
    [p EXCEPT !.num_intermediate_chars = 0,
              !.intermediate_chars = << >>,
              !.num_params = 0,
              !.params = << >>,
              !.ignore_flagged = 0,
              !.col = << >>,
              !.par = << >>,
              !.ncol = 0]

\* do_action
do_action(p, action, ch) ==
    LET q == [p EXCEPT !.acts = Append(@,
                 [action |-> action, ch |-> ch, state |-> p.state])]
    IN  CASE action \in HostActions -> Callback(q, action, ch)
          [] action = VTPARSE_ACTION_IGNORE -> q
          [] action = VTPARSE_ACTION_COLLECT -> ActionCollect(q, ch)
          [] action = VTPARSE_ACTION_PARAM -> ActionParam(q, ch)
          [] action = VTPARSE_ACTION_CLEAR -> ActionClear(q)
          [] OTHER -> Callback(q, VTPARSE_ACTION_ERROR, 0)

\* Mutant of do_state_change: the state is assigned before the actions run.
do_state_change_state_first(p, change, ch) ==
    LET new_state == STATE_OF(change)
        action == ACTION_OF(change)
    IN  IF new_state # 0
        THEN LET exit_action == EXIT_ACTIONS(p.state - 1)
                 entry_action == ENTRY_ACTIONS(new_state - 1)
                 p0 == [p EXCEPT !.state = new_state]
                 p1 == IF exit_action # 0 THEN do_action(p0, exit_action, 0) ELSE p0
                 p2 == IF action # 0 THEN do_action(p1, action, ch) ELSE p1
             IN  IF entry_action # 0 THEN do_action(p2, entry_action, 0) ELSE p2
        ELSE do_action(p, action, ch)

\* Mutant of do_state_change: the entry action of the new state is the one
\* listed for the old state.
do_state_change_entry_of_old(p, change, ch) ==
    LET new_state == STATE_OF(change)
        action == ACTION_OF(change)
    IN  IF new_state # 0
        THEN LET exit_action == EXIT_ACTIONS(p.state - 1)
                 entry_action == ENTRY_ACTIONS(p.state - 1)
                 p1 == IF exit_action # 0 THEN do_action(p, exit_action, 0) ELSE p
                 p2 == IF action # 0 THEN do_action(p1, action, ch) ELSE p1
                 p3 == IF entry_action # 0 THEN do_action(p2, entry_action, 0) ELSE p2
             IN  [p3 EXCEPT !.state = new_state]
        ELSE do_action(p, action, ch)

\* do_state_change
do_state_change(p, change, ch) ==
    LET new_state == STATE_OF(change)
        action == ACTION_OF(change)
    IN  IF new_state # 0
        THEN LET exit_action == EXIT_ACTIONS(p.state - 1)
                 entry_action == ENTRY_ACTIONS(new_state - 1)
                 p1 == IF exit_action # 0 THEN do_action(p, exit_action, 0) ELSE p
                 p2 == IF action # 0 THEN do_action(p1, action, ch) ELSE p1
                 p3 == IF entry_action # 0 THEN do_action(p2, entry_action, 0) ELSE p2
             IN  [p3 EXCEPT !.state = new_state]
        ELSE do_action(p, action, ch)

\* A store to print_buf[i] leaves the array when i is no subscript of it.
PrintBufStore(i) == IF i >= PRINT_BUFFER_SIZE THEN {"print_buf"} ELSE {}

\* Mutant of do_print: the three counters are left as they are.
do_print_no_reset(p) ==
    LET p1 == [p EXCEPT !.oob = @ \cup PrintBufStore(p.print_buf_len)]
        p2 == do_state_change(p1, VTPARSE_ACTION_PRINT, 0)
    IN  [p2 EXCEPT !.print_buf_len = 0, !.print_buf = << >>]

\* do_print
do_print(p) ==
    LET p1 == [p EXCEPT !.oob = @ \cup PrintBufStore(p.print_buf_len),
                        !.num_intermediate_chars = 0,
                        !.intermediate_chars = << >>,
                        !.num_params = 0,
                        !.params = << >>,
                        !.ignore_flagged = 0,
                        !.ncol = 0]
        p2 == do_state_change(p1, VTPARSE_ACTION_PRINT, 0)
    IN  [p2 EXCEPT !.print_buf_len = 0, !.print_buf = << >>]

\* Mutant of parse_ch: every printable is printed as it arrives.
parse_ch_no_coalescing(p0, ch) ==
    LET p == [p0 EXCEPT !.fed_ch = Append(@, ch)] IN
    IF p.state = VTPARSE_STATE_GROUND /\ ch >= 32
    THEN do_print([p EXCEPT !.print_buf = Append(@, ch), !.print_buf_len = @ + 1])
    ELSE LET p1 == IF p.print_buf_len # 0 THEN do_print(p) ELSE p
             change == STATE_TABLE(p1.state - 1, ch)
             p2 == [p1 EXCEPT !.idx = Append(@, <<p1.state - 1, ch>>)]
         IN  do_state_change(p2, change, ch)

\* Mutant of parse_ch: pending print is drained after the state change.
parse_ch_late_print(p0, ch) ==
    LET p == [p0 EXCEPT !.fed_ch = Append(@, ch)] IN
    IF p.state = VTPARSE_STATE_GROUND /\ ch >= 32
    THEN LET p1 == [p EXCEPT !.print_buf = Append(@, ch), !.print_buf_len = @ + 1]
         IN  IF p1.print_buf_len >= PRINT_BUFFER_SIZE - 1 THEN do_print(p1) ELSE p1
    ELSE LET change == STATE_TABLE(p.state - 1, ch)
             p2 == [p EXCEPT !.idx = Append(@, <<p.state - 1, ch>>)]
             p3 == do_state_change(p2, change, ch)
         IN  IF p3.print_buf_len # 0 THEN do_print(p3) ELSE p3

\* Mutant of parse_ch: printables are buffered in every state.
parse_ch_buffers_anywhere(p0, ch) ==
    LET p == [p0 EXCEPT !.fed_ch = Append(@, ch)] IN
    IF ch >= 32 /\ ch < 127
    THEN LET p1 == [p EXCEPT !.oob = @ \cup PrintBufStore(p.print_buf_len),
                             !.print_buf = Append(@, ch),
                             !.print_buf_len = @ + 1]
         IN  IF p1.print_buf_len >= PRINT_BUFFER_SIZE - 1
             THEN do_print(p1)
             ELSE p1
    ELSE LET p1 == IF p.print_buf_len # 0 THEN do_print(p) ELSE p
             change == STATE_TABLE(p1.state - 1, ch)
             p2 == [p1 EXCEPT !.idx = Append(@, <<p1.state - 1, ch>>)]
         IN  do_state_change(p2, change, ch)

\* Mutant of parse_ch: the buffer is drained when it holds more than
\* PRINT_BUFFER_SIZE code points.
parse_ch_drains_late(p0, ch) ==
    LET p == [p0 EXCEPT !.fed_ch = Append(@, ch)] IN
    IF p.state = VTPARSE_STATE_GROUND /\ ch >= 32
    THEN LET p1 == [p EXCEPT !.oob = @ \cup PrintBufStore(p.print_buf_len),
                             !.print_buf = Append(@, ch),
                             !.print_buf_len = @ + 1]
         IN  IF p1.print_buf_len > PRINT_BUFFER_SIZE
             THEN do_print(p1)
             ELSE p1
    ELSE LET p1 == IF p.print_buf_len # 0 THEN do_print(p) ELSE p
             change == STATE_TABLE(p1.state - 1, ch)
             p2 == [p1 EXCEPT !.idx = Append(@, <<p1.state - 1, ch>>)]
         IN  do_state_change(p2, change, ch)

\* parse_ch
parse_ch(p0, ch) ==
    LET p == [p0 EXCEPT !.fed_ch = Append(@, ch)] IN
    IF p.state = VTPARSE_STATE_GROUND /\ ch >= 32
    THEN LET p1 == [p EXCEPT !.oob = @ \cup PrintBufStore(p.print_buf_len),
                             !.print_buf = Append(@, ch),
                             !.print_buf_len = @ + 1]
         IN  IF p1.print_buf_len >= PRINT_BUFFER_SIZE - 1
             THEN do_print(p1)
             ELSE p1
    ELSE LET p1 == IF p.print_buf_len # 0 THEN do_print(p) ELSE p
             change == STATE_TABLE(p1.state - 1, ch)
             p2 == [p1 EXCEPT !.idx = Append(@, <<p1.state - 1, ch>>)]
         IN  do_state_change(p2, change, ch)

\* Mutant of LeadBit: the loop goes on down to bit 0.
RECURSIVE LeadBit_down_to_bit_0(_, _)
LeadBit_down_to_bit_0(ch, bit) ==
    IF (ch \div (2 ^ bit)) % 2 = 0 THEN bit
    ELSE IF bit - 1 > 0 THEN LeadBit_down_to_bit_0(ch, bit - 1)
    ELSE bit - 1

\* The position of the first clear bit below bit 7 of a lead byte, as the
\* do/while loop of vtparse finds it.
RECURSIVE LeadBit(_, _)
LeadBit(ch, bit) ==
    IF (ch \div (2 ^ bit)) % 2 = 0 THEN bit
    ELSE IF bit - 1 > 1 THEN LeadBit(ch, bit - 1)
    ELSE bit - 1

\* Mutant of LeadData: every lead byte is masked as that of a two-byte
\* sequence.
LeadData_one_mask(ch, ch_bytes) ==
    IF ch_bytes \in 2..6 THEN ch % 32 ELSE 0

\* The data bits of a lead byte: the switch on ch_bytes.
LeadData(ch, ch_bytes) ==
    CASE ch_bytes = 2 -> ch % 32
      [] ch_bytes = 3 -> ch % 16
      [] ch_bytes = 4 -> ch % 8
      [] ch_bytes = 5 -> ch % 4
      [] ch_bytes = 6 -> ch % 2
      [] OTHER -> 0

\* Mutant of ToUnsignedChar: the local holds the whole code point.
ToUnsignedChar_whole(v) == v

\* What the assignment to the local "unsigned char ch" keeps of a value.
ToUnsignedChar(v) == v % 256

\* The ghost fields that describe one step start empty at each step.
Fresh(p) ==
    [p EXCEPT !.cbs = << >>, !.acts = << >>, !.idx = << >>, !.fed_ch = << >>,
              !.kind = "none", !.from = p.state]

\* One iteration of the loop of vtparse, for the byte data[i].
vtparse_byte(p, byte) ==
    LET q == Fresh(p) IN
    IF q.ch_bytes # 1
    THEN LET u == q.utf8_ch * 64 + (byte % 64)
             ch == ToUnsignedChar(u)
             q1 == [q EXCEPT !.utf8_ch = u, !.ch_bytes = @ - 1]
         IN  IF q1.ch_bytes # 1
             THEN [q1 EXCEPT !.kind = "cont"]
             ELSE parse_ch([q1 EXCEPT !.kind = "last"], ch)
    ELSE IF (byte \div 128) % 2 # 0
    THEN LET bit == LeadBit(byte, 6)
             n == 7 - bit
         IN  [q EXCEPT !.ch_bytes = n, !.utf8_ch = LeadData(byte, n), !.kind = "lead"]
    ELSE parse_ch([q EXCEPT !.kind = "single"], byte)

\* Mutant of drain_on_return: the call returns without draining.
drain_on_return_missing(p) == Fresh(p)

\* Mutant of drain_on_return: the decoder's position is dropped when the
\* call returns, as if ch_bytes were local to the call.
drain_on_return_forgets_decoder(p) ==
    LET q == [Fresh(p) EXCEPT !.ch_bytes = 1] IN
    IF q.print_buf_len # 0 THEN do_print(q) ELSE q

\* The statements of vtparse (and of vtparsew) after the loop.
drain_on_return(p) ==
    LET q == Fresh(p) IN
    IF q.print_buf_len # 0 THEN do_print(q) ELSE q

\* One iteration of the loop of vtparsew, for the code point data[i].
vtparsew_ch(p, ch) ==
    parse_ch(Fresh(p), ch)


\* ------------------------------------------------------------------------
\* The parser and its caller as a state machine
\* ------------------------------------------------------------------------

VARIABLES
    parser,   \* the vtparse_t the caller feeds
    whole,    \* a second vtparse_t, fed the same bytes in a single call (SpecResume)
    pc,       \* where the caller is: "idle", or inside "vtparse" or "vtparsew"
    fed,      \* how many bytes or code points have been fed so far
    log,      \* the callbacks of the current call, in order (call-level specifications)
    wlog,     \* the callbacks issued to whole, in order (SpecResume)
    input,    \* the bytes given so far to the current call (call-level specifications)
    at_call   \* state and ch_bytes of the parser when the current call began

vars == <<parser, whole, pc, fed, log, wlog, input, at_call>>

\* STATE_TABLE has 256 columns: a code point above 255 is given to vtparsew
\* only while the parser is in GROUND, where parse_ch does not use the table.
WideOk(p, ch) == ch <= 255 \/ p.state = VTPARSE_STATE_GROUND

\* vtparse_init(&parser, cb), for each layout the build may have.
Init ==
    /\ \E l \in Layouts : parser = vtparse_init(l)
    /\ whole = parser
    /\ pc = "idle"
    /\ fed = 0
    /\ log = << >>
    /\ wlog = << >>
    /\ input = << >>
    /\ at_call = [state |-> VTPARSE_STATE_GROUND, ch_bytes |-> 1]

\* The caller enters vtparse (kind "vtparse") or vtparsew (kind "vtparsew").
\* With track, the call's input and callbacks are recorded from here on.
EnterCall(kind, max, track) ==
    /\ pc = "idle"
    /\ fed < max
    /\ pc' = kind
    /\ parser' = Fresh(parser)
    /\ IF track
       THEN /\ log' = << >>
            /\ input' = << >>
            /\ at_call' = [state |-> parser.state, ch_bytes |-> parser.ch_bytes]
       ELSE UNCHANGED <<log, input, at_call>>
    /\ UNCHANGED <<whole, wlog, fed>>

\* One iteration of the loop of vtparse, on a byte of S.
FeedByte(S, max, track) ==
    /\ pc = "vtparse"
    /\ fed < max
    /\ \E b \in S :
          /\ parser' = vtparse_byte(parser, b)
          /\ IF track
             THEN log' = log \o parser'.cbs /\ input' = Append(input, b)
             ELSE UNCHANGED <<log, input>>
    /\ fed' = fed + 1
    /\ UNCHANGED <<whole, wlog, pc, at_call>>

\* One iteration of the loop of vtparsew, on a code point of S.
FeedCodePoint(S, max, track) ==
    /\ pc = "vtparsew"
    /\ fed < max
    /\ \E ch \in S :
          /\ WideOk(parser, ch)
          /\ parser' = vtparsew_ch(parser, ch)
          /\ IF track
             THEN log' = log \o parser'.cbs /\ input' = Append(input, ch)
             ELSE UNCHANGED <<log, input>>
    /\ fed' = fed + 1
    /\ UNCHANGED <<whole, wlog, pc, at_call>>

\* The loop of vtparse or vtparsew ends: pending print is drained and the
\* call returns.
ReturnFrom(kind, track) ==
    /\ pc = kind
    /\ parser' = drain_on_return(parser)
    /\ pc' = "idle"
    /\ IF track THEN log' = log \o parser'.cbs ELSE UNCHANGED log
    /\ UNCHANGED <<whole, wlog, fed, input, at_call>>

\* ------------------------------------------------------------------------
\* Spec: the byte entry point, step by step
\* ------------------------------------------------------------------------

\* How many bytes a behaviour of Spec feeds at most.
MaxFed == 5

\* The bytes fed in Spec: C0 controls (BEL, CAN, ESC), an intermediate
\* (SP), parameter bytes ('1', ';'), finals and introducers ('A', 'P', '[',
\* 'm'), a UTF-8 lead byte (C2) and continuation bytes (9D, A9).
Bytes == { 7, 24, 27, 32, 49, 59, 65, 80, 91, 109, 157, 169, 194 }

CallVtparse == EnterCall("vtparse", MaxFed, FALSE)

VtparseByte == FeedByte(Bytes, MaxFed, FALSE)

VtparseReturn == ReturnFrom("vtparse", FALSE)

Next ==
    \/ CallVtparse
    \/ VtparseByte
    \/ VtparseReturn

Spec == Init /\ [][Next]_vars

\* ------------------------------------------------------------------------
\* SpecWide: the code point entry point, step by step
\* ------------------------------------------------------------------------

\* How many code points a behaviour of SpecWide feeds at most.
MaxFedWide == 5

\* The code points fed in SpecWide: C0 and C1 controls (CAN, ESC, OSC 9D),
\* an intermediate (SP), parameter bytes ('1', ';'), finals and introducers
\* ('A', 'P', '['), and a code point outside the table's columns.
CodePoints == { 24, 27, 32, 49, 59, 65, 80, 91, 157, 9731 }

CallVtparsew == EnterCall("vtparsew", MaxFedWide, FALSE)

VtparsewCh == FeedCodePoint(CodePoints, MaxFedWide, FALSE)

VtparsewReturn == ReturnFrom("vtparsew", FALSE)

NextWide ==
    \/ CallVtparsew
    \/ VtparsewCh
    \/ VtparsewReturn

SpecWide == Init /\ [][NextWide]_vars

\* ------------------------------------------------------------------------
\* SpecCall: whole calls of both entry points, with the call's input and
\* its callbacks recorded
\* ------------------------------------------------------------------------

\* How many bytes and code points a behaviour of SpecCall feeds at most.
MaxFedCall == 5

\* BEL, ESC, 'A', 'B', and the UTF-8 encoding E2 98 83 of U+2603.
CallBytes == { 7, 27, 65, 66, 131, 152, 226 }

CallCodePoints == { 7, 65, 9731 }

CCallVtparse == EnterCall("vtparse", MaxFedCall, TRUE)

CVtparseByte == FeedByte(CallBytes, MaxFedCall, TRUE)

CVtparseReturn == ReturnFrom("vtparse", TRUE)

CCallVtparsew == EnterCall("vtparsew", MaxFedCall, TRUE)

CVtparsewCh == FeedCodePoint(CallCodePoints, MaxFedCall, TRUE)

CVtparsewReturn == ReturnFrom("vtparsew", TRUE)

NextCall ==
    \/ CCallVtparse
    \/ CVtparseByte
    \/ CVtparseReturn
    \/ CCallVtparsew
    \/ CVtparsewCh
    \/ CVtparsewReturn

SpecCall == Init /\ [][NextCall]_vars

\* ------------------------------------------------------------------------
\* SpecResume: the same bytes fed to parser in two calls and to whole in one
\* ------------------------------------------------------------------------

\* How many bytes a behaviour of SpecResume feeds at most.
MaxFedResume == 4

\* BEL, ESC, SP, '1', 'A', '[', and the UTF-8 encoding C2 A9 of U+00A9.
ResumeBytes == { 7, 27, 32, 49, 65, 91, 169, 194 }

\* Both parsers are initialised and both callers enter vtparse.
RStart ==
    /\ pc = "idle"
    /\ fed = 0
    /\ pc' = "first"
    /\ parser' = Fresh(parser)
    /\ whole' = Fresh(whole)
    /\ UNCHANGED <<fed, log, wlog, input, at_call>>

\* One iteration of the loop of vtparse in both parsers, on the same byte.
RByte ==
    /\ pc \in {"first", "second"}
    /\ fed < MaxFedResume
    /\ \E b \in ResumeBytes :
          /\ parser' = vtparse_byte(parser, b)
          /\ whole' = vtparse_byte(whole, b)
          /\ input' = Append(input, b)
    /\ log' = log \o parser'.cbs
    /\ wlog' = wlog \o whole'.cbs
    /\ fed' = fed + 1
    /\ UNCHANGED <<pc, at_call>>

\* The split: the first call on parser returns and its caller enters
\* vtparse again with the rest; whole stays in its single call.
RSplit ==
    /\ pc = "first"
    /\ parser' = drain_on_return(parser)
    /\ log' = log \o parser'.cbs
    /\ at_call' = [state |-> parser'.state, ch_bytes |-> parser'.ch_bytes]
    /\ pc' = "second"
    /\ UNCHANGED <<whole, wlog, fed, input>>

\* The input ends: the second call on parser and the call on whole return.
REnd ==
    /\ pc = "second"
    /\ parser' = drain_on_return(parser)
    /\ whole' = drain_on_return(whole)
    /\ log' = log \o parser'.cbs
    /\ wlog' = wlog \o whole'.cbs
    /\ pc' = "done"
    /\ UNCHANGED <<fed, input, at_call>>

NextResume ==
    \/ RStart
    \/ RByte
    \/ RSplit
    \/ REnd

SpecResume == Init /\ [][NextResume]_vars

\* ------------------------------------------------------------------------
\* SpecDeep: long control sequences through the byte entry point
\* ------------------------------------------------------------------------

\* How many bytes a behaviour of SpecDeep feeds at most: enough for ESC [
\* and more separators than params[] has slots.
MaxFedDeep == 20

\* ESC, SP (an intermediate), ';', 'P' (DCS), '[' (CSI), 'm' (a final).
\* Control sequences follow one another with no text between them: in
\* GROUND only ESC is fed.
DeepBytes ==
    IF parser.state = VTPARSE_STATE_GROUND THEN { 27 }
    ELSE { 27, 32, 59, 80, 91, 109 }

DCallVtparse == EnterCall("vtparse", MaxFedDeep, FALSE)

DVtparseByte == FeedByte(DeepBytes, MaxFedDeep, FALSE)

DVtparseReturn == ReturnFrom("vtparse", FALSE)

NextDeep ==
    \/ DCallVtparse
    \/ DVtparseByte
    \/ DVtparseReturn

SpecDeep == Init /\ [][NextDeep]_vars

\* ------------------------------------------------------------------------
\* SpecRun: one call of vtparse on a run of printable bytes
\* ------------------------------------------------------------------------

\* How long the run is at most: past the capacity of print_buf.
MaxRun == 65

\* Up to where the bytes of the run vary.
MaxVaried == 5

\* 'H', 'e', 'l', 'o' at the start of the run, 'l' after that.
RunBytes == IF Len(input) < MaxVaried THEN { 72, 101, 108, 111 } ELSE { 108 }

RunCall ==
    /\ fed = 0
    /\ EnterCall("vtparse", MaxRun, TRUE)

RunByte == FeedByte(RunBytes, MaxRun, TRUE)

RunReturn == ReturnFrom("vtparse", TRUE)

NextRun ==
    \/ RunCall
    \/ RunByte
    \/ RunReturn

SpecRun == Init /\ [][NextRun]_vars

\* ------------------------------------------------------------------------
\* SpecCsi: one call of vtparse on a control sequence ESC [ ...
\* ------------------------------------------------------------------------

\* How long the sequence is at most: ESC [, sixteen one-digit parameters
\* with their fifteen separators, and the final byte.
MaxFedCsi == 34

\* The bytes after ESC [ vary as far as the longest worked example,
\* ESC [ ? 2 5 ; 7 h, is long.
MaxVariedCsi == Len(<<27, 91, 63, 50, 53, 59, 55, 104>>)

\* s goes on as ESC [ 1 ; 1 ; 1 ...
OnesAndSeparators(s) ==
    \A i \in 3..Len(s) : s[i] = (IF i % 2 = 1 THEN 49 ELSE 59)

\* ESC, then '[', then the private markers '<' and '?', the digits '1', '2',
\* '3', '5', '7', the separator ';' and the finals 'h' and 'm'; nothing
\* after the final byte. Past the varied part only ESC [ 1 ; 1 ; ... goes on.
CsiBytes ==
    CASE Len(input) = 0 -> { 27 }
      [] Len(input) = 1 -> { 91 }
      [] Len(input) > 1 /\ parser.state = VTPARSE_STATE_GROUND -> { }
      [] Len(input) > 1 /\ parser.state # VTPARSE_STATE_GROUND
                        /\ Len(input) < MaxVariedCsi ->
            { 60, 63, 49, 50, 51, 53, 55, 59, 104, 109 }
      [] OTHER ->
            IF OnesAndSeparators(input)
            THEN { IF Len(input) % 2 = 0 THEN 49 ELSE 59, 109 }
            ELSE { }

CsiCall ==
    /\ fed = 0
    /\ EnterCall("vtparse", MaxFedCsi, TRUE)

CsiByte == FeedByte(CsiBytes, MaxFedCsi, TRUE)

CsiReturn == ReturnFrom("vtparse", TRUE)

NextCsi ==
    \/ CsiCall
    \/ CsiByte
    \/ CsiReturn

SpecCsi == Init /\ [][NextCsi]_vars

\* ------------------------------------------------------------------------
\* SpecFlag: escape sequences with intermediates, and text between them
\* ------------------------------------------------------------------------

\* How many bytes a behaviour of SpecFlag feeds at most: three intermediates
\* after ESC, the way back to GROUND, text, and what drains the text.
MaxFedFlag == 7

\* CAN, ESC, SP (an intermediate), 'A' (a final, and text), '[' (CSI).
FlagBytes == { 24, 27, 32, 65, 91 }

FCallVtparse == EnterCall("vtparse", MaxFedFlag, FALSE)

FVtparseByte == FeedByte(FlagBytes, MaxFedFlag, FALSE)

FVtparseReturn == ReturnFrom("vtparse", FALSE)

NextFlag ==
    \/ FCallVtparse
    \/ FVtparseByte
    \/ FVtparseReturn

SpecFlag == Init /\ [][NextFlag]_vars

\* ------------------------------------------------------------------------
\* SpecParam: control sequences with long numbers
\* ------------------------------------------------------------------------

\* How many bytes a behaviour of SpecParam feeds at most: ESC [ and ten
\* digits, one more than an int has room for.
MaxFedParam == 12

\* ESC in GROUND, '[' after ESC, then '3', ';' and the final 'm'.
ParamBytes ==
    CASE parser.state = VTPARSE_STATE_GROUND -> { 27 }
      [] parser.state = VTPARSE_STATE_ESCAPE -> { 91 }
      [] OTHER -> { 51, 59, 109 }

PCallVtparse == EnterCall("vtparse", MaxFedParam, FALSE)

PVtparseByte == FeedByte(ParamBytes, MaxFedParam, FALSE)

PVtparseReturn == ReturnFrom("vtparse", FALSE)

NextParam ==
    \/ PCallVtparse
    \/ PVtparseByte
    \/ PVtparseReturn

SpecParam == Init /\ [][NextParam]_vars

\* ------------------------------------------------------------------------
\* SpecUtf8: the UTF-8 decoder of vtparse, over calls that may end anywhere;
\* input holds every byte fed since the parser was initialised
\* ------------------------------------------------------------------------

\* How many bytes a behaviour of SpecUtf8 feeds at most: a six-byte
\* sequence.
MaxFedUtf8 == 6

\* While a sequence is pending: 'A' and the continuation byte 83.
\* Otherwise: 'A', the byte BF, and a lead byte of each length (C2, E2, F0,
\* F8, FC), FE and FF.
Utf8Bytes ==
    IF parser.ch_bytes # 1 THEN { 65, 131 }
    ELSE { 65, 191, 194, 226, 240, 248, 252, 254, 255 }

\* The caller enters vtparse with the next chunk.
UCallVtparse ==
    /\ pc = "idle"
    /\ fed < MaxFedUtf8
    /\ pc' = "vtparse"
    /\ parser' = Fresh(parser)
    /\ at_call' = [state |-> parser.state, ch_bytes |-> parser.ch_bytes]
    /\ UNCHANGED <<whole, wlog, fed, log, input>>

UVtparseByte == FeedByte(Utf8Bytes, MaxFedUtf8, TRUE)

UVtparseReturn == ReturnFrom("vtparse", TRUE)

NextUtf8 ==
    \/ UCallVtparse
    \/ UVtparseByte
    \/ UVtparseReturn

SpecUtf8 == Init /\ [][NextUtf8]_vars

\* ------------------------------------------------------------------------
\* Properties
\* ------------------------------------------------------------------------

\* The callbacks of l other than PRINT.
NonPrint(l) == SelectSeq(l, LAMBDA e : e.action # VTPARSE_ACTION_PRINT)

\* The code points the PRINT callbacks of l carry, in order.
RECURSIVE Payload(_)
Payload(l) ==
    IF l = << >> THEN << >>
    ELSE (IF Head(l).action = VTPARSE_ACTION_PRINT THEN Head(l).print_buf ELSE << >>)
         \o Payload(Tail(l))

\* The fields of the C structure.
Core(p) ==
    [ state |-> p.state,
      num_intermediate_chars |-> p.num_intermediate_chars,
      intermediate_chars |-> p.intermediate_chars,
      num_params |-> p.num_params,
      params |-> VisibleParams(p),
      ignore_flagged |-> p.ignore_flagged,
      ch_bytes |-> p.ch_bytes,
      utf8_ch |-> p.utf8_ch,
      print_buf_len |-> p.print_buf_len,
      print_buf |-> p.print_buf ]

\* C1 (resumability): when the input has ended, the parser fed in two calls
\* and the parser fed in one call have received the same callbacks other
\* than PRINT, with the same observed fields, their PRINT callbacks carry
\* the same code points in the same order, and the two parsers are in the
\* same state.
C1_Resumable ==
    pc = "done" =>
        /\ NonPrint(log) = NonPrint(wlog)
        /\ Payload(log) = Payload(wlog)
        /\ Core(parser) = Core(whole)

\* C1 witness: an input split inside a printable run that is followed by
\* other callbacks, so that the two parsers got different PRINT callbacks.
C1_Witness ==
    /\ pc = "done"
    /\ Len(log) > Len(wlog)
    /\ NonPrint(log) # << >>
    /\ Payload(wlog) # << >>

\* C2 (UTF-8 printable), as claimed: when a step of vtparse that began in
\* GROUND completes a multi-byte sequence whose code point is 0x80 or more,
\* the step makes no table lookup and no callback other than PRINT, and the
\* code point is the last one appended to print_buf (still buffered, or
\* carried by the step's PRINT); and a call on a parser in GROUND with the
\* bytes E2 98 83 makes exactly one callback, PRINT with [0x2603].
C2_Utf8Printed ==
    /\ ( /\ pc = "vtparse"
         /\ parser.kind = "last"
         /\ parser.from = VTPARSE_STATE_GROUND
         /\ parser.utf8_ch >= 128 )
       => /\ parser.idx = << >>
          /\ NonPrint(parser.cbs) = << >>
          /\ LET buf == IF parser.cbs = << >> THEN parser.print_buf
                        ELSE parser.cbs[Len(parser.cbs)].print_buf
             IN  buf # << >> /\ buf[Len(buf)] = parser.utf8_ch
    /\ ( /\ pc = "idle"
         /\ input = <<226, 152, 131>>
         /\ at_call = [state |-> VTPARSE_STATE_GROUND, ch_bytes |-> 1] )
       => /\ Len(log) = 1
          /\ log[1].action = VTPARSE_ACTION_PRINT
          /\ log[1].print_buf = <<9731>>

\* C3 (parameter count), as claimed: num_params never exceeds MAX_PARAMS,
\* in the parser and at every callback, and no store is made outside
\* params[].
C3_NumParamsBounded ==
    /\ parser.num_params <= MAX_PARAMS
    /\ \A i \in 1..Len(parser.cbs) : parser.cbs[i].num_params <= MAX_PARAMS
    /\ "params" \notin parser.oob

\* C4 (intermediate count): num_intermediate_chars never exceeds
\* MAX_INTERMEDIATE_CHARS, in the parser and at every callback, and
\* intermediate_chars[] holds no more than that many bytes.
C4_NumIntermediatesBounded ==
    /\ parser.num_intermediate_chars <= MAX_INTERMEDIATE_CHARS
    /\ Len(parser.intermediate_chars) <= MAX_INTERMEDIATE_CHARS
    /\ \A i \in 1..Len(parser.cbs) :
          /\ parser.cbs[i].num_intermediate_chars <= MAX_INTERMEDIATE_CHARS
          /\ Len(parser.cbs[i].intermediate_chars) <= MAX_INTERMEDIATE_CHARS

\* C4 witness: a dispatch callback made after a third intermediate was
\* given to COLLECT and rejected.
C4_Witness ==
    /\ Len(parser.col) > MAX_INTERMEDIATE_CHARS
    /\ parser.cbs # << >>
    /\ parser.cbs[1].action \in {VTPARSE_ACTION_ESC_DISPATCH, VTPARSE_ACTION_CSI_DISPATCH}
    /\ parser.cbs[1].num_intermediate_chars = MAX_INTERMEDIATE_CHARS
    /\ parser.cbs[1].ignore_flagged = 1

\* C5 (drain on return): whenever vtparse or vtparsew has returned, the
\* print buffer is empty.
C5_DrainedOnReturn ==
    pc = "idle" => parser.print_buf_len = 0 /\ parser.print_buf = << >>

\* C5 witness: a call has returned whose last statement drained code points
\* that were still buffered when its loop ended.
C5_Witness ==
    /\ pc = "idle"
    /\ input # << >>
    /\ parser.kind = "none"
    /\ parser.cbs # << >>
    /\ parser.cbs[1].action = VTPARSE_ACTION_PRINT
    /\ parser.cbs[1].print_buf # << >>

\* The bytes of s are printable ASCII (0x20 .. 0x7F).
AllPrintable(s) == \A i \in 1..Len(s) : 32 <= s[i] /\ s[i] < 128

\* C6 (print coalescing): a call of vtparse on a parser in GROUND whose
\* input is a run of 1 .. PRINT_BUFFER_SIZE-2 printable bytes and nothing
\* else makes exactly one callback, PRINT, with print_buf equal to the run.
C6_PrintCoalescing ==
    ( /\ pc = "idle"
      /\ at_call = [state |-> VTPARSE_STATE_GROUND, ch_bytes |-> 1]
      /\ input # << >>
      /\ AllPrintable(input)
      /\ Len(input) < PRINT_BUFFER_SIZE - 1 )
    => /\ Len(log) = 1
       /\ log[1].action = VTPARSE_ACTION_PRINT
       /\ log[1].print_buf = input

\* C6 witness: the call on "Hello" has returned after one PRINT.
C6_Witness ==
    /\ pc = "idle"
    /\ input = <<72, 101, 108, 108, 111>>
    /\ Len(log) = 1
    /\ log[1].print_buf = <<72, 101, 108, 108, 111>>

\* What a callback shows of itself: its action, its code point and, for
\* PRINT, the code points it carries.
Shown(l) ==
    [i \in 1..Len(l) |->
        <<l[i].action, l[i].ch,
          IF l[i].action = VTPARSE_ACTION_PRINT THEN l[i].print_buf ELSE << >> >>]

\* The call on 41 07 42 has returned.
C7_CallDone ==
    /\ pc = "idle"
    /\ input = <<65, 7, 66>>
    /\ at_call = [state |-> VTPARSE_STATE_GROUND, ch_bytes |-> 1]

\* C7 (input order): in every step that gives parse_ch a code point which is
\* not a ground-state printable while print_buf is not empty, the first
\* action and the first callback of the step is the PRINT that carries
\* exactly the buffered code points, whatever that code point causes comes
\* after it, and the buffer is left empty for the printables that follow; and
\* the call on 41 07 42 makes exactly PRINT(A), EXECUTE(0x07), PRINT(B).
C7_InputOrder ==
    [][ /\ ( /\ pc' = pc
             /\ pc \in {"vtparse", "vtparsew"}
             /\ parser.print_buf_len > 0
             /\ parser'.fed_ch # << >>
             /\ ~(parser.state = VTPARSE_STATE_GROUND /\ parser'.fed_ch[1] >= 32) )
           => /\ parser'.acts # << >>
              /\ parser'.acts[1].action = VTPARSE_ACTION_PRINT
              /\ parser'.cbs # << >>
              /\ parser'.cbs[1].action = VTPARSE_ACTION_PRINT
              /\ parser'.cbs[1].print_buf = parser.print_buf
              /\ Len(parser'.acts) > 1
              /\ \A i \in 2..Len(parser'.acts) :
                    /\ parser'.acts[i].action # VTPARSE_ACTION_PRINT
                    /\ parser'.acts[i].ch \in {0, parser'.fed_ch[1]}
              /\ parser'.print_buf = << >>
        /\ C7_CallDone'
           => Shown(log') = << <<VTPARSE_ACTION_PRINT, 0, <<65>> >>,
                               <<VTPARSE_ACTION_EXECUTE, 7, << >> >>,
                               <<VTPARSE_ACTION_PRINT, 0, <<66>> >> >>
      ]_vars

\* C7 witness: the call on 41 07 42 has returned, after three callbacks.
C7_Witness == C7_CallDone /\ Len(log) = 3

\* The do_action invocations do_state_change makes for the table entry
\* change met in state old on code point ch, in order: the exit action of
\* old, the action of the entry, the entry action of the target state.
TransitionActs(old, change, ch) ==
    LET mk(a, c) == [action |-> a, ch |-> c, state |-> old] IN
    (IF EXIT_ACTIONS(old - 1) # 0 THEN << mk(EXIT_ACTIONS(old - 1), 0) >> ELSE << >>)
    \o (IF ACTION_OF(change) # 0 THEN << mk(ACTION_OF(change), ch) >> ELSE << >>)
    \o (IF ENTRY_ACTIONS(STATE_OF(change) - 1) # 0
        THEN << mk(ENTRY_ACTIONS(STATE_OF(change) - 1), 0) >> ELSE << >>)

\* The actions (or callbacks) of a step without the print drain that
\* parse_ch makes before it looks up the table.
AfterDrain(l) ==
    IF l # << >> /\ l[1].action = VTPARSE_ACTION_PRINT THEN Tail(l) ELSE l

\* C8 (transition order): when a step looks up a table entry whose target
\* state is not 0, the actions run for it are, in this order, the exit
\* action of the current state with code point 0, the entry's action with
\* the code point, the entry action of the target with code point 0 (each
\* only if not 0); every one of them, and so every callback among them,
\* sees the old state; and the parser is in the target state afterwards.
C8_TransitionOrder ==
    \A k \in 1..Len(parser.idx) :
        LET old == parser.idx[k][1] + 1
            ch == parser.idx[k][2]
            change == STATE_TABLE(old - 1, ch)
        IN  STATE_OF(change) # 0
            => /\ AfterDrain(parser.acts) = TransitionActs(old, change, ch)
               /\ \A i \in 1..Len(AfterDrain(parser.cbs)) :
                     AfterDrain(parser.cbs)[i].state = old
               /\ parser.state = STATE_OF(change)

\* C8 witness: a transition out of OSC_STRING into OSC_STRING (on 9D) has
\* run the exit action OSC_END and then the entry action OSC_START.
C8_Witness ==
    /\ Len(parser.cbs) = 2
    /\ parser.cbs[1].action = VTPARSE_ACTION_OSC_END
    /\ parser.cbs[2].action = VTPARSE_ACTION_OSC_START
    /\ parser.cbs[1].state = VTPARSE_STATE_OSC_STRING
    /\ parser.state = VTPARSE_STATE_OSC_STRING

\* C9 (no ERROR), as claimed: no callback receives ERROR, and a step that
\* looks up a table entry with no action and no target state makes no
\* callback for it and leaves the state as it was.
C9_NoError ==
    /\ \A i \in 1..Len(parser.cbs) : parser.cbs[i].action # VTPARSE_ACTION_ERROR
    /\ \A k \in 1..Len(parser.idx) :
          STATE_TABLE(parser.idx[k][1], parser.idx[k][2]) = 0
          => /\ AfterDrain(parser.cbs) = << >>
             /\ parser.state = parser.idx[k][1] + 1

DispatchActions ==
    { VTPARSE_ACTION_CSI_DISPATCH, VTPARSE_ACTION_ESC_DISPATCH,
      VTPARSE_ACTION_OSC_END, VTPARSE_ACTION_UNHOOK }

\* The intermediates that the code points c given to COLLECT leave: the
\* first MAX_INTERMEDIATE_CHARS of them, as bytes.
CollectedFrom(c) ==
    [i \in 1..(IF Len(c) < MAX_INTERMEDIATE_CHARS THEN Len(c) ELSE MAX_INTERMEDIATE_CHARS)
        |-> c[i] % 256]

\* The parameters that the code points r given to PARAM leave: ';' opens a
\* parameter with value 0, a digit is appended in decimal to the last one
\* (opening the first one if there is none).
RECURSIVE ParamsFrom(_)
ParamsFrom(r) ==
    IF r = << >> THEN << >>
    ELSE LET before == ParamsFrom(SubSeq(r, 1, Len(r) - 1))
             ch == r[Len(r)]
         IN  IF ch = 59 THEN Append(before, 0)
             ELSE LET b == IF before = << >> THEN <<0>> ELSE before
                  IN  [b EXCEPT ![Len(b)] = WrapMulAdd(@, 10, ch - 48)]

\* The callback e shows exactly what the COLLECT and PARAM actions since
\* the most recent CLEAR produced (the parameters, as long as there are no
\* more of them than params[] has slots).
ShowsSinceClear(e) ==
    /\ e.num_intermediate_chars = Len(CollectedFrom(e.col))
    /\ e.intermediate_chars = CollectedFrom(e.col)
    /\ Len(ParamsFrom(e.par)) <= MAX_PARAMS
       => /\ e.num_params = Len(ParamsFrom(e.par))
          /\ e.params = ParamsFrom(e.par)

\* C10 (dispatch sees its own sequence), as amended: every CSI_DISPATCH,
\* ESC_DISPATCH, OSC_END and UNHOOK callback shows exactly the
\* intermediates and (up to MAX_PARAMS of them) the parameters that COLLECT
\* and PARAM produced since the most recent CLEAR.
C10_DispatchShowsSinceClear ==
    \A i \in 1..Len(parser.cbs) :
        parser.cbs[i].action \in DispatchActions => ShowsSinceClear(parser.cbs[i])

\* C10 as claimed: moreover nothing collected for an earlier sequence is
\* visible at a later dispatch: an OSC string collects no intermediates and
\* no parameters, so OSC_END shows none.
C10_NothingStaleAtDispatch ==
    /\ C10_DispatchShowsSinceClear
    /\ \A i \in 1..Len(parser.cbs) :
          parser.cbs[i].action = VTPARSE_ACTION_OSC_END
          => /\ parser.cbs[i].num_params = 0
             /\ parser.cbs[i].num_intermediate_chars = 0

\* C10 witness: a CSI_DISPATCH that shows a parameter and an intermediate
\* collected since the CLEAR of CSI_ENTRY.
C10_Witness ==
    /\ parser.cbs # << >>
    /\ parser.cbs[1].action = VTPARSE_ACTION_CSI_DISPATCH
    /\ parser.cbs[1].num_params = 1
    /\ parser.cbs[1].params = <<1>>
    /\ parser.cbs[1].intermediate_chars = <<32>>

\* The private marker of the control sequence s, if it has one.
CsiMarker(s) ==
    IF Len(s) >= 3 /\ s[3] \in 60..63 THEN << s[3] >> ELSE << >>

\* The parameter string of the control sequence s: what stands between
\* ESC [ (and the marker) and the final byte.
CsiParamString(s) == SubSeq(s, 3 + Len(CsiMarker(s)), Len(s) - 1)

\* P is k >= 1 non-empty decimal numbers separated by ';'.
IsNumberList(P) ==
    /\ P # << >>
    /\ \A i \in 1..Len(P) : P[i] \in 48..57 \/ P[i] = 59
    /\ P[1] # 59
    /\ P[Len(P)] # 59
    /\ \A i \in 1..(Len(P) - 1) : ~(P[i] = 59 /\ P[i + 1] = 59)

\* The value of the decimal number written with the digits d.
RECURSIVE Decimal(_)
Decimal(d) ==
    IF d = << >> THEN 0
    ELSE Decimal(SubSeq(d, 1, Len(d) - 1)) * 10 + (d[Len(d)] - 48)

\* The values of the numbers of P, in order.
RECURSIVE DecimalValues(_)
DecimalValues(P) ==
    IF \A i \in 1..Len(P) : P[i] # 59 THEN << Decimal(P) >>
    ELSE LET i == CHOOSE j \in 1..Len(P) :
                     P[j] = 59 /\ \A h \in 1..(j - 1) : P[h] # 59
         IN  << Decimal(SubSeq(P, 1, i - 1)) >>
             \o DecimalValues(SubSeq(P, i + 1, Len(P)))

\* s is ESC [ P F: an optional private marker, 1 .. MAX_PARAMS numbers and
\* a final byte.
IsCsiSequence(s) ==
    /\ Len(s) >= 4
    /\ s[1] = 27
    /\ s[2] = 91
    /\ s[Len(s)] \in 64..126
    /\ IsNumberList(CsiParamString(s))
    /\ Len(DecimalValues(CsiParamString(s))) <= MAX_PARAMS

\* The CSI_DISPATCH callbacks of l.
CsiDispatches(l) == SelectSeq(l, LAMBDA e : e.action = VTPARSE_ACTION_CSI_DISPATCH)

\* C11 (CSI parameters): a call of vtparse on a fresh parser with a control
\* sequence ESC [ P F (k numbers, 1 <= k <= MAX_PARAMS, after an optional
\* private marker) makes exactly one CSI_DISPATCH callback; it carries the
\* final byte and shows num_params = k, the values of the numbers in order,
\* and the marker, if any, as the only intermediate.
C11_CsiParams ==
    ( /\ pc = "idle"
      /\ at_call = [state |-> VTPARSE_STATE_GROUND, ch_bytes |-> 1]
      /\ IsCsiSequence(input) )
    => LET d == CsiDispatches(log)
           v == DecimalValues(CsiParamString(input))
       IN  /\ Len(d) = 1
           /\ d[1].ch = input[Len(input)]
           /\ d[1].num_params = Len(v)
           /\ d[1].params = v
           /\ d[1].num_intermediate_chars = Len(CsiMarker(input))
           /\ d[1].intermediate_chars = CsiMarker(input)

\* C11 witness: the call on ESC [ ? 2 5 ; 7 h has returned after a
\* CSI_DISPATCH that showed the parameters 25 and 7 and the marker '?'.
C11_Witness ==
    /\ pc = "idle"
    /\ input = <<27, 91, 63, 50, 53, 59, 55, 104>>
    /\ Len(log) = 1
    /\ log[1].action = VTPARSE_ACTION_CSI_DISPATCH
    /\ log[1].ch = 104
    /\ log[1].params = <<25, 7>>
    /\ log[1].intermediate_chars = <<63>>

\* The smaller of two numbers.
Min(a, b) == IF a < b THEN a ELSE b

\* ignore_flagged tells that more COLLECT actions have run since the last
\* reset than intermediate_chars[] has room for, and num_intermediate_chars
\* counts the ones that had room.
FlagTellsRejection(e) ==
    /\ e.ignore_flagged \in {0, 1}
    /\ (e.ignore_flagged = 1) <=> (e.ncol > MAX_INTERMEDIATE_CHARS)
    /\ e.num_intermediate_chars = Min(e.ncol, MAX_INTERMEDIATE_CHARS)

\* C12 (ignore_flagged): in every parser state and at every callback,
\* ignore_flagged is set exactly when a COLLECT has been rejected, for
\* num_intermediate_chars being MAX_INTERMEDIATE_CHARS already, since the
\* last CLEAR action or print drain; a rejected COLLECT changes no field
\* but ignore_flagged; and the ESC_DISPATCH of ESC SP SP SP and a final
\* shows ignore_flagged set and num_intermediate_chars = 2.
C12_IgnoreFlagged ==
    /\ FlagTellsRejection(parser)
    /\ \A i \in 1..Len(parser.cbs) : FlagTellsRejection(parser.cbs[i])
    /\ parser.num_intermediate_chars = MAX_INTERMEDIATE_CHARS
       => \A ch \in 32..47 :
             Core(ActionCollect(parser, ch)) = [Core(parser) EXCEPT !.ignore_flagged = 1]
    /\ \A i \in 1..Len(parser.cbs) :
          ( /\ parser.cbs[i].action = VTPARSE_ACTION_ESC_DISPATCH
            /\ parser.cbs[i].col = <<32, 32, 32>> )
          => /\ parser.cbs[i].ignore_flagged = 1
             /\ parser.cbs[i].num_intermediate_chars = 2

\* C12 witness: text was printed after the ESC_DISPATCH of ESC SP SP SP A
\* had shown ignore_flagged set: the drain has reset the flag, and the
\* three COLLECT actions of that sequence are behind the reset.
C12_Witness ==
    /\ parser.cbs # << >>
    /\ parser.cbs[1].action = VTPARSE_ACTION_PRINT
    /\ parser.cbs[1].ignore_flagged = 0
    /\ parser.cbs[1].col = <<32, 32, 32>>
    /\ parser.cbs[1].ncol = 0

\* C13 (parameters are non-negative), as claimed: every active parameter is
\* 0 or more, in every parser state and at every callback, and the
\* arithmetic on a parameter never leaves the range of an int.
C13_ParamsNonNegative ==
    /\ \A i \in 1..Len(VisibleParams(parser)) : VisibleParams(parser)[i] >= 0
    /\ \A k \in 1..Len(parser.cbs) :
          \A i \in 1..Len(parser.cbs[k].params) : parser.cbs[k].params[i] >= 0
    /\ "int" \notin parser.oob

\* How many 1-bits the byte b begins with.
LeadingOnes(b) ==
    CASE b < 128 -> 0
      [] b \in 128..191 -> 1
      [] b \in 192..223 -> 2
      [] b \in 224..239 -> 3
      [] b \in 240..247 -> 4
      [] b \in 248..251 -> 5
      [] b \in 252..253 -> 6
      [] b = 254 -> 7
      [] OTHER -> 8

\* How many continuation bytes are awaited after the bytes h: a byte that
\* arrives while none is awaited and begins with two or more 1-bits is a
\* lead byte and awaits one byte less than it has leading 1-bits (at most
\* five); every byte that arrives while some are awaited counts as one.
RECURSIVE Awaited(_)
Awaited(h) ==
    IF h = << >> THEN 0
    ELSE LET before == Awaited(SubSeq(h, 1, Len(h) - 1))
             b == h[Len(h)]
         IN  IF before > 0 THEN before - 1
             ELSE IF LeadingOnes(b) >= 2 THEN Min(LeadingOnes(b), 6) - 1
             ELSE 0

\* C14 (ch_bytes): ch_bytes is in 1..6 in every state, after every byte
\* sequence and every chunking, and it is 1 exactly when no lead byte is
\* awaiting continuation bytes (it is the number of awaited bytes plus 1).
C14_ChBytesRange ==
    /\ parser.ch_bytes \in 1..6
    /\ (parser.ch_bytes = 1) <=> (Awaited(input) = 0)
    /\ parser.ch_bytes = Awaited(input) + 1

\* C14 witness: a call returned after the lead byte FC and one continuation
\* byte, and in the next call further continuation bytes arrived: two more
\* are awaited.
C14_Witness ==
    /\ pc = "vtparse"
    /\ Len(input) = 4
    /\ input[1] = 252
    /\ at_call.ch_bytes = 5
    /\ parser.ch_bytes = 3

\* C15 (CLEAR on entry): whenever a step leaves the parser in ESCAPE,
\* CSI_ENTRY or DCS_ENTRY, num_intermediate_chars, num_params and
\* ignore_flagged are 0, whatever state the step began in and whatever
\* action its transition carried; and a step that enters one of them from
\* another state ends with the CLEAR action.
C15_ClearOnEntry ==
    parser.state \in { VTPARSE_STATE_ESCAPE, VTPARSE_STATE_CSI_ENTRY,
                       VTPARSE_STATE_DCS_ENTRY }
    => /\ parser.num_intermediate_chars = 0
       /\ parser.num_params = 0
       /\ parser.ignore_flagged = 0
       /\ parser.from # parser.state
          => /\ parser.acts # << >>
             /\ parser.acts[Len(parser.acts)].action = VTPARSE_ACTION_CLEAR

\* C15 witness: ESC arrived in DCS_PARAM after more separators than
\* params[] has slots had been counted there; the step ran CLEAR and left
\* the parser in ESCAPE.
C15_Witness ==
    /\ parser.state = VTPARSE_STATE_ESCAPE
    /\ parser.from = VTPARSE_STATE_DCS_PARAM
    /\ "params" \in parser.oob
    /\ parser.acts = << [action |-> VTPARSE_ACTION_CLEAR, ch |-> 0,
                         state |-> VTPARSE_STATE_DCS_PARAM] >>

\* The latest step of vtparse took a byte with the high bit set while no
\* continuation byte was awaited.
LeadStep ==
    /\ pc = "vtparse"
    /\ parser.kind # "none"
    /\ input # << >>
    /\ Awaited(SubSeq(input, 1, Len(input) - 1)) = 0
    /\ input[Len(input)] >= 128

\* The latest step gave nothing to the state machine: parse_ch was not
\* called, no table entry was read, no action ran, no callback was made, and
\* the state and the print buffer are as they were.
NothingDelivered ==
    /\ parser.fed_ch = << >>
    /\ parser.idx = << >>
    /\ parser.acts = << >>
    /\ parser.cbs = << >>
    /\ parser.state = parser.from

\* The bits of b below its n leading 1-bits and the 0-bit after them.
DataBits(b, n) == IF n < 7 THEN b % (2 ^ (7 - n)) ELSE 0

\* C16 (lead byte), as amended: a byte with the high bit set that vtparse
\* receives while ch_bytes = 1 is never given to the state machine. For
\* C0 .. FD, ch_bytes becomes the number of leading 1-bits of the byte (2 ..
\* 6) and utf8_ch its data bits; for 80 .. BF, ch_bytes stays 1 and utf8_ch
\* becomes 0 (the byte is dropped); for FE and FF, ch_bytes becomes 6 and
\* utf8_ch the lowest bit of the byte.
C16_LeadByte ==
    LeadStep =>
        LET b == input[Len(input)] IN
        /\ NothingDelivered
        /\ b \in 192..253
           => /\ parser.ch_bytes \in 2..6
              /\ parser.ch_bytes = LeadingOnes(b)
              /\ parser.utf8_ch = DataBits(b, LeadingOnes(b))
        /\ b \in 128..191 => parser.ch_bytes = 1 /\ parser.utf8_ch = 0
        /\ b \in 254..255 => parser.ch_bytes = 6 /\ parser.utf8_ch = b % 2

\* C16 as claimed: for every such byte, 80 .. FF, ch_bytes becomes the
\* number of leading 1-bits of the byte, a value in 2 .. 6, utf8_ch becomes
\* its data bits, and nothing is given to the state machine.
C16_LeadByteAsClaimed ==
    LeadStep =>
        LET b == input[Len(input)] IN
        /\ NothingDelivered
        /\ parser.ch_bytes \in 2..6
        /\ parser.ch_bytes = LeadingOnes(b)
        /\ parser.utf8_ch = DataBits(b, LeadingOnes(b))

\* C16 witness: the lead byte F0 arrived after text; four bytes are counted
\* and the text is still in the print buffer.
C16_Witness ==
    /\ LeadStep
    /\ input[Len(input)] = 240
    /\ parser.ch_bytes = 4
    /\ parser.utf8_ch = 0
    /\ parser.print_buf = <<65>>

\* The three fields that CLEAR and do_print reset are 0 in e.
CountersZero(e) ==
    /\ e.num_intermediate_chars = 0
    /\ e.num_params = 0
    /\ e.ignore_flagged = 0

\* C17 (the reset of the print drain), as amended: every PRINT callback
\* shows num_intermediate_chars, num_params and ignore_flagged at 0, and
\* the three are 0 whenever print_buf is empty in GROUND after a drain, that
\* is, at every return to the caller in GROUND after text.
C17_PrintShowsZeros ==
    /\ \A i \in 1..Len(parser.cbs) :
          parser.cbs[i].action = VTPARSE_ACTION_PRINT => CountersZero(parser.cbs[i])
    /\ ( /\ parser.cbs # << >>
         /\ parser.cbs[Len(parser.cbs)].action = VTPARSE_ACTION_PRINT )
       => CountersZero(parser)

\* C17 as claimed: the three fields are 0 already in every state with
\* state = GROUND, so that the drain resets nothing.
C17_ZeroInGround ==
    parser.state = VTPARSE_STATE_GROUND => CountersZero(parser)

\* C17 witness: text after ESC [ 1 m was drained; the PRINT callback showed
\* no parameter, which the CSI_DISPATCH of the sequence before it had left
\* in params[].
C17_Witness ==
    /\ parser.cbs # << >>
    /\ parser.cbs[1].action = VTPARSE_ACTION_PRINT
    /\ parser.cbs[1].print_buf = <<65>>
    /\ parser.cbs[1].par = <<49>>
    /\ parser.cbs[1].num_params = 0

\* C18 (buffered text means GROUND): in every parser state, and in what
\* every callback sees, a print buffer that is not empty goes with state =
\* GROUND; and print_buf_len is the number of code points buffered.
C18_BufferedOnlyInGround ==
    /\ parser.print_buf_len = Len(parser.print_buf)
    /\ parser.print_buf_len > 0 => parser.state = VTPARSE_STATE_GROUND
    /\ \A i \in 1..Len(parser.cbs) :
          parser.cbs[i].print_buf_len > 0 => parser.cbs[i].state = VTPARSE_STATE_GROUND

\* C18 witness: ESC arrived while text was buffered; the text was printed
\* from GROUND, and the parser is in ESCAPE with an empty buffer.
C18_Witness ==
    /\ parser.state = VTPARSE_STATE_ESCAPE
    /\ parser.print_buf_len = 0
    /\ Len(parser.cbs) = 1
    /\ parser.cbs[1].action = VTPARSE_ACTION_PRINT
    /\ parser.cbs[1].print_buf_len = 2
    /\ parser.cbs[1].state = VTPARSE_STATE_GROUND

\* C19 (print buffer capacity): print_buf_len never exceeds
\* PRINT_BUFFER_SIZE-1, no store is made outside print_buf[], and every
\* PRINT callback sees between 1 and PRINT_BUFFER_SIZE-1 code points.
C19_PrintBufBounded ==
    /\ parser.print_buf_len <= PRINT_BUFFER_SIZE - 1
    /\ Len(parser.print_buf) = parser.print_buf_len
    /\ "print_buf" \notin parser.oob
    /\ \A i \in 1..Len(parser.cbs) :
          parser.cbs[i].action = VTPARSE_ACTION_PRINT
          => /\ parser.cbs[i].print_buf_len >= 1
             /\ parser.cbs[i].print_buf_len <= PRINT_BUFFER_SIZE - 1
             /\ Len(parser.cbs[i].print_buf) = parser.cbs[i].print_buf_len

\* C19 witness: the buffer was drained by the byte that filled it to
\* PRINT_BUFFER_SIZE-1 code points.
C19_Witness ==
    /\ pc = "vtparse"
    /\ parser.kind = "single"
    /\ Len(parser.cbs) = 1
    /\ parser.cbs[1].action = VTPARSE_ACTION_PRINT
    /\ parser.cbs[1].print_buf_len = PRINT_BUFFER_SIZE - 1
    /\ parser.print_buf_len = 0

\* C20 (table subscripts): every STATE_TABLE entry read in a step of
\* vtparse is read at a row state-1 in 0 .. 13 and a column in 0 .. 255,
\* and the state stays one of the fourteen.
C20_TableIndexInRange ==
    /\ parser.state \in 1..14
    /\ parser.kind # "none"
       => \A k \in 1..Len(parser.idx) :
             /\ parser.idx[k][1] \in 0..13
             /\ parser.idx[k][2] \in 0..255

\* C20 witness: outside GROUND a three-byte sequence was completed whose
\* code point is above 255, and the table was read for it.
C20_Witness ==
    /\ parser.kind = "last"
    /\ parser.from # VTPARSE_STATE_GROUND
    /\ parser.utf8_ch > 255
    /\ Len(parser.idx) = 1
    /\ parser.idx[1][1] = parser.from - 1
    /\ parser.idx[1][2] = parser.utf8_ch % 256

=============================================================================
